---- MODULE Spec2Model ----
\* readpub: the Book entity and the BookManager registry (src/src/bookmanager).
\* One BookManager over one library root; every method call is one atomic step
\* (the core is single-threaded and synchronous).
EXTENDS Integers, Sequences, FiniteSets, TLC

\* ------------------------------------------------------------------ bounds
\* number of distinct 8-byte tokens secrets.token_hex(8) can return
NumTok8 == 1
\* the maxruns with which add_book calls get_new_bookid (scaled down from 20)
MaxRuns == 3
\* the metadata specification follows a library of at most MaxMeta books
MaxMeta == 1
\* page numbers handed to turn_to_page range over -MaxPage..MaxPage
MaxPage == 1
\* the spine of an EPUB lists at most MaxSpine itemrefs
MaxSpine == 2
\* the package document lies at most MaxDepth directories deep
MaxDepth == 2
\* a manifest href starts with at most MaxUp "../" segments
MaxUp == 2

\* ------------------------------------------------------------------ values
\* the tokens secrets.token_hex(8) can return, and the one 16-byte token
\* secrets.token_hex(16) can return
Tok8 == 1..NumTok8
Tok16 == {NumTok8 + 1}
\* directory names / book ids; NoBook is the empty string of opened_book
Ids == Tok8 \cup Tok16
NoBook == 0

\* Python's None and a present value (a dict), as sequences of length 0 / 1
None == <<>>
Some(m) == <<m>>
\* a missing metadata.yml, and a metadata.yml holding the YAML document doc
NoFile == <<>>
FileOf(doc) == <<doc>>

StatusHint == {"normal", "deleted", "pinned"}
\* the progress pair: as a Python tuple, as the YAML sequence node it is
\* dumped as, and as the Python list that node is loaded as
TupleStart == "(0.0, 1.0)"
SeqStart == "- 0.0 - 1.0"
ListStart == "[0.0, 1.0]"
TupleHalf == "(1.0, 2.0)"
SeqHalf == "- 1.0 - 2.0"
ListHalf == "[1.0, 2.0]"

\* kinds of a source file / of the content of a book directory
SrcKinds == {"missing", "epub", "noopf", "txt"}
DirKinds == {"none", "epub", "noopf", "txt"}

EmptyKw == [k \in {} |-> ""]
Kw(k, v) == [x \in {k} |-> v]

\* the keyword arguments the callers pass to update_metadata
Partials ==
  {EmptyKw} \cup {Kw("status", s) : s \in StatusHint} \cup {Kw("progress", TupleHalf)}

\* the keyword arguments the callers pass to find
Criteria == {EmptyKw} \cup {Kw("status", s) : s \in StatusHint}

\* two keyword arguments
Kw2(k1, v1, k2, v2) == [x \in {k1, k2} |-> IF x = k1 THEN v1 ELSE v2]

\* criteria on one field and on two fields, the progress given as the pair a
\* materialized record holds or as the list a loaded record holds
FindCriteria ==
  Criteria \cup {Kw2("status", s, "progress", p) :
                   s \in {"normal", "deleted"}, p \in {TupleStart, ListStart}}

Range(s) == {s[i] : i \in 1..Len(s)}
Min(S) == CHOOSE x \in S : \A y \in S : x <= y

\* ------------------------------------------------------------------ state
VARIABLES
  books,        \* BookManager.books: the registry keys in insertion order
  opened_book,  \* BookManager.opened_book
  username,     \* BookManager.username
  page_now,     \* Book.__page_now of every book
  filedict,     \* Book.__filedict of every book: <<idref, bytes>> pairs
  metadata,     \* Book.__metadata of every book: None or Some(dict)
  dir,          \* disk: what books/<id>/ holds ("none": no such directory)
  yml,          \* disk: books/<id>/metadata.yml
  last,         \* the last call: operation, arguments and outcome
  ret,          \* the metadata the last call returned (None when it returned none)
  found,        \* the keys of the dict the last find returned, in order
  epub,         \* disk: the package document of the EPUB in books/<id>/
  edited        \* history: the record the updates of a book add up to

vars ==
  <<books, opened_book, username, page_now, filedict, metadata, dir, yml, last, ret,
    found, epub, edited>>

BookIds == Range(books)

Call(op, b, n, src, kw, err, wrote) ==
  [op |-> op, book |-> b, n |-> n, src |-> src, kw |-> kw, err |-> err, wrote |-> wrote]

\* ------------------------------------------------------------------ YAML
\* yaml.safe_dump of one value: a tuple is represented as a sequence, which
\* is what a list is represented as
yaml_dump_value(v) ==
  CASE v \in {TupleStart, ListStart} -> SeqStart
    [] v \in {TupleHalf, ListHalf} -> SeqHalf
    [] OTHER -> v

\* yaml.safe_load of one node: a sequence is constructed as a list
yaml_load_value(v) ==
  CASE v = SeqStart -> ListStart
    [] v = SeqHalf -> ListHalf
    [] OTHER -> v

\* yaml.safe_dump of a Python value (None dumps as the null document)
yaml_safe_dump(pv) ==
  IF pv = None THEN None
  ELSE Some([k \in DOMAIN pv[1] |-> yaml_dump_value(pv[1][k])])

\* yaml.safe_load of a document (the null document loads as None)
yaml_safe_load(doc) ==
  IF doc = None THEN None
  ELSE Some([k \in DOMAIN doc[1] |-> yaml_load_value(doc[1][k])])

\* ------------------------------------------------------------------ EPUB
\* read_ebook(dirpath, only_metadata=True): the error it raises, if any
read_ebook_error(kind) ==
  CASE kind = "epub" -> "ok"
    [] kind = "noopf" -> "UnsupportedFormat"
    [] kind = "txt" -> "UnsupportedFormat"
    [] OTHER -> "AttributeError"

\* _read_epub_metadata: the four keys derived from the EPUB
read_epub_metadata(b) ==
  [title |-> "T", author |-> "A", filepath |-> "T.epub", coverpath |-> "cover.jpg"]

\* the ids of the manifest items a spine can refer to
IdRefs == {"ch1", "ch2"}

\* a package document: the idrefs of the spine's itemrefs in order, and the
\* idrefs whose resolved href is not a name of the archive
Epub(spine, missing) == [spine |-> spine, missing |-> missing]
DefaultEpub == Epub(<<"ch1", "ch2">>, {})

\* the EPUBs whose spine lists up to MaxSpine itemrefs, an idref possibly more
\* than once, any of the items it lists being absent from the archive
Spines == UNION {[1..n -> IdRefs] : n \in 0..MaxSpine}
Epubs == {Epub(sp, ms) : sp \in Spines, ms \in SUBSET IdRefs}

\* dict_set keeping every assignment as an entry of its own
dict_append(items, i, v) == Append(items, <<i, v>>)

\* items[i] = v on a dict kept as <<key, value>> pairs in insertion order: a
\* key that is present keeps its place
dict_set(items, i, v) ==
  IF \E j \in 1..Len(items) : items[j][1] = i
  THEN [j \in 1..Len(items) |-> IF items[j][1] = i THEN <<i, v>> ELSE items[j]]
  ELSE Append(items, <<i, v>>)

\* the bytes z.read returns for the item idref; b"" when its href is not in
\* the namelist
item_bytes(e, i) == IF i \in e.missing THEN "" ELSE i

\* _get_opf_items: the loop over the spine's idrefs from the n-th on
RECURSIVE opf_items_from(_, _, _)
opf_items_from(e, n, items) ==
  IF n > Len(e.spine) THEN items
  ELSE opf_items_from(e, n + 1, dict_set(items, e.spine[n], item_bytes(e, e.spine[n])))

\* _get_opf_items: the spine's items, keyed by idref
get_opf_items(e) == opf_items_from(e, 1, <<>>)

\* archive names and hrefs are strings; a string is kept as the sequence of
\* its pieces, a piece being a name, the separator "/" or ".."
DirNames == {"a", "b"}
Max(S) == CHOOSE x \in S : \A y \in S : x >= y

\* "/".join(comps)
RECURSIVE join(_)
join(comps) ==
  IF Len(comps) <= 1 THEN comps
  ELSE join(SubSeq(comps, 1, Len(comps) - 1)) \o <<"/", comps[Len(comps)]>>

\* the archive name of the package document content.opf in the directory
\* whose components are comps
opf_href_in(comps) ==
  IF comps = <<>> THEN <<"content.opf">> ELSE join(comps) \o <<"/", "content.opf">>

\* "".join(opf_href.rpartition("/")[:-1]): the name up to its last separator,
\* separator included, empty when it has none
maindir_of(opf_href) ==
  LET seps == {i \in 1..Len(opf_href) : opf_href[i] = "/"}
  IN IF seps = {} THEN <<>> ELSE SubSeq(opf_href, 1, Max(seps))

\* Path(s).parent.as_posix(): the components of s but the last, joined, no
\* separator at the end; "." when s has at most one component
path_parent(s) ==
  LET c == SelectSeq(s, LAMBDA t : t # "/")
  IN IF Len(c) <= 1 THEN <<".">> ELSE join(SubSeq(c, 1, Len(c) - 1))

\* _merge_dir(fromdir, to)
RECURSIVE merge_dir(_, _)
merge_dir(fromdir, to) ==
  IF Len(to) >= 2 /\ to[1] = ".." /\ to[2] = "/"
  THEN LET parentdir == path_parent(fromdir)
       IN merge_dir(IF parentdir = <<".">> THEN <<>> ELSE parentdir,
                    SubSeq(to, 3, Len(to)))
  ELSE fromdir \o to

\* the href of k "../" segments followed by the relative path r
RECURSIVE href_up(_, _)
href_up(k, r) == IF k = 0 THEN r ELSE <<"..", "/">> \o href_up(k - 1, r)

\* the directories a package document lies in, and the relative paths
OpfDirs == UNION {[1..n -> DirNames] : n \in 0..MaxDepth}
RelPaths == {<<"r">>, <<"x", "/", "r">>}

\* _get_opf_items / _get_opf_info resolving one manifest href against the
\* directory of the package document
resolve_href(comps, k, r) ==
  /\ ret' = Some(merge_dir(maindir_of(opf_href_in(comps)), href_up(k, r)))
  /\ last' = Call("merge_dir", NoBook, k, "", Kw2("dir", comps, "path", r), "ok", FALSE)
  /\ found' = <<>>
  /\ UNCHANGED <<books, opened_book, username, page_now, filedict, metadata, dir, yml,
                 epub, edited>>

\* dict | kwargs
merge(d, kw) ==
  [k \in (DOMAIN d) \cup (DOMAIN kw) |-> IF k \in DOMAIN kw THEN kw[k] ELSE d[k]]

\* ------------------------------------------------------------------ Book
\* materialize with the uploader fixed to the identity the manager starts with
materialize_testuser(base, user) ==
  merge(base, [uploader |-> "testuser", uploadtime |-> "now", status |-> "normal",
               progress |-> TupleStart])

\* the keys get_metadata adds to what read_ebook returned
materialize(base, user) ==
  merge(base, [uploader |-> user, uploadtime |-> "now", status |-> "normal",
               progress |-> TupleStart])

\* cache_of without the assignment to self.__metadata
cache_of_nothing(m) == None

\* what get_metadata leaves in self.__metadata after materializing m
cache_of(m) == Some(m)

\* Book.get_metadata on a book with cache md, side file y and directory kind:
\* the error raised, the value returned, the cache and the side file left
\* behind, and whether the side file was written
get_metadata_of(b, md, y, kind, user) ==
  IF md # None
  THEN [err |-> "ok", ret |-> md, metadata |-> md, yml |-> y, wrote |-> FALSE]
  ELSE IF y # NoFile
  THEN [err |-> "ok", ret |-> yaml_safe_load(y[1]), metadata |-> md, yml |-> y,
        wrote |-> FALSE]
  ELSE IF read_ebook_error(kind) # "ok"
  THEN [err |-> read_ebook_error(kind), ret |-> None, metadata |-> md, yml |-> y,
        wrote |-> FALSE]
  ELSE LET m == materialize(read_epub_metadata(b), user)
       IN [err |-> "ok", ret |-> cache_of(m), metadata |-> cache_of(m),
           yml |-> FileOf(yaml_safe_dump(Some(m))), wrote |-> TRUE]

\* Book.get_metadata
Book_get_metadata(b) ==
  /\ b \in BookIds
  /\ LET g == get_metadata_of(b, metadata[b], yml[b], dir[b], username)
     IN /\ metadata' = [metadata EXCEPT ![b] = g.metadata]
        /\ yml' = [yml EXCEPT ![b] = g.yml]
        /\ ret' = g.ret
        /\ found' = <<>>
        /\ last' = Call("get_metadata", b, 0, "", EmptyKw, g.err, g.wrote)
  /\ UNCHANGED <<books, opened_book, username, page_now, filedict, dir, epub, edited>>

\* what save_metadata dumps: the in-memory cache
saved_value(md) == md

\* Book.save_metadata
Book_save_metadata(b) ==
  /\ b \in BookIds
  /\ yml' = [yml EXCEPT ![b] = FileOf(yaml_safe_dump(saved_value(metadata[b])))]
  /\ ret' = None
  /\ found' = <<>>
  /\ last' = Call("save_metadata", b, 0, "", EmptyKw, "ok", TRUE)
  /\ UNCHANGED <<books, opened_book, username, page_now, filedict, metadata, dir,
                 epub, edited>>

\* Book.update_metadata(**kw) on the book's fields: get_metadata() | kw is
\* dumped to the side file; the cache is whatever get_metadata left
update_metadata_of(b, md, y, kind, user, kw) ==
  LET g == get_metadata_of(b, md, y, kind, user)
  IN IF g.err # "ok" THEN [err |-> g.err, metadata |-> g.metadata, yml |-> g.yml]
     ELSE IF g.ret = None
     THEN [err |-> "TypeError", metadata |-> g.metadata, yml |-> g.yml]
     ELSE [err |-> "ok", metadata |-> g.metadata,
           yml |-> FileOf(yaml_safe_dump(Some(merge(g.ret[1], kw))))]

\* Book.update_metadata, the history aside
update_metadata_step(b, kw) ==
  /\ b \in BookIds
  /\ LET u == update_metadata_of(b, metadata[b], yml[b], dir[b], username, kw)
     IN /\ metadata' = [metadata EXCEPT ![b] = u.metadata]
        /\ yml' = [yml EXCEPT ![b] = u.yml]
        /\ last' = Call("update_metadata", b, 0, "", kw, u.err, u.err = "ok")
  /\ ret' = None
  /\ found' = <<>>
  /\ UNCHANGED <<books, opened_book, username, page_now, filedict, dir, epub>>

\* Book.update_metadata
Book_update_metadata(b, kw) ==
  /\ update_metadata_step(b, kw)
  /\ UNCHANGED edited

\* the record the updates of book b add up to once kw is applied: every key
\* has the value of its most recent update, or the value get_metadata
\* returned before the first update
edited_after(b, kw) ==
  LET before == IF edited[b] # None THEN edited[b]
                ELSE get_metadata_of(b, metadata[b], yml[b], dir[b], username).ret
  IN Some(merge(before[1], kw))

\* Book.update_metadata, the history following the successful updates
Book_update_metadata_logged(b, kw) ==
  /\ update_metadata_step(b, kw)
  /\ edited' = IF last'.err = "ok" THEN [edited EXCEPT ![b] = edited_after(b, kw)]
               ELSE edited

\* Book.del_metadata
Book_del_metadata(b) ==
  /\ b \in BookIds
  /\ yml' = [yml EXCEPT ![b] = NoFile]
  /\ ret' = None
  /\ found' = <<>>
  /\ last' = Call("del_metadata", b, 0, "", EmptyKw, "ok", FALSE)
  /\ UNCHANGED <<books, opened_book, username, page_now, filedict, metadata, dir,
                 epub, edited>>

\* Book.load: the error it raises, if any
load_error(fd, kind) ==
  IF fd # <<>> THEN "AlreadyLoaded" ELSE read_ebook_error(kind)

\* Book.load
Book_load(b) ==
  /\ b \in BookIds
  /\ LET e == load_error(filedict[b], dir[b])
     IN /\ filedict' = IF e = "ok" THEN [filedict EXCEPT ![b] = get_opf_items(epub[b])]
                       ELSE filedict
        /\ last' = Call("load", b, 0, "", EmptyKw, e, FALSE)
  /\ ret' = None
  /\ found' = <<>>
  /\ UNCHANGED <<books, opened_book, username, page_now, metadata, dir, yml,
                 epub, edited>>

\* Book.release giving up the manager's slot when the book holds it
Book_release_slot(b) ==
  /\ b \in BookIds
  /\ filedict' = [filedict EXCEPT ![b] = <<>>]
  /\ opened_book' = IF opened_book = b THEN NoBook ELSE opened_book
  /\ ret' = None
  /\ found' = <<>>
  /\ last' = Call("release", b, 0, "", EmptyKw, "ok", FALSE)
  /\ UNCHANGED <<books, username, page_now, metadata, dir, yml, epub, edited>>

\* Book.release
Book_release(b) ==
  /\ b \in BookIds
  /\ filedict' = [filedict EXCEPT ![b] = <<>>]
  /\ ret' = None
  /\ found' = <<>>
  /\ last' = Call("release", b, 0, "", EmptyKw, "ok", FALSE)
  /\ UNCHANGED <<books, opened_book, username, page_now, metadata, dir, yml,
                 epub, edited>>

\* open_error without the check of the manager's slot
open_error_noslot(slot, page, fd) ==
  IF fd = <<>> THEN "NotLoaded" ELSE "ok"

\* Book.open: the error it raises, if any
open_error(slot, page, fd) ==
  IF slot # NoBook
  THEN IF page = -1 THEN "AnotherBookOpen" ELSE "AlreadyOpen"
  ELSE IF fd = <<>> THEN "NotLoaded" ELSE "ok"

\* Book.open looking at the content map before the slot
Book_open_content_first(b) ==
  /\ b \in BookIds
  /\ LET e == IF filedict[b] = <<>> THEN "NotLoaded"
              ELSE open_error(opened_book, page_now[b], filedict[b])
     IN /\ opened_book' = IF e = "ok" THEN b ELSE opened_book
        /\ last' = Call("open", b, 0, "", EmptyKw, e, FALSE)
  /\ ret' = None
  /\ found' = <<>>
  /\ UNCHANGED <<books, username, page_now, filedict, metadata, dir, yml, epub, edited>>

\* Book.open: a successful open sets the manager's slot and nothing else
Book_open(b) ==
  /\ b \in BookIds
  /\ LET e == open_error(opened_book, page_now[b], filedict[b])
     IN /\ opened_book' = IF e = "ok" THEN b ELSE opened_book
        /\ last' = Call("open", b, 0, "", EmptyKw, e, FALSE)
  /\ ret' = None
  /\ found' = <<>>
  /\ UNCHANGED <<books, username, page_now, filedict, metadata, dir, yml, epub, edited>>

\* Book.close releasing the content map as well
Book_close_releasing(b) ==
  /\ b \in BookIds
  /\ page_now' = [page_now EXCEPT ![b] = -1]
  /\ filedict' = [filedict EXCEPT ![b] = <<>>]
  /\ ret' = None
  /\ found' = <<>>
  /\ last' = Call("close", b, 0, "", EmptyKw, "ok", FALSE)
  /\ UNCHANGED <<books, opened_book, username, metadata, dir, yml, epub, edited>>

\* Book.close
Book_close(b) ==
  /\ b \in BookIds
  /\ page_now' = [page_now EXCEPT ![b] = -1]
  /\ ret' = None
  /\ found' = <<>>
  /\ last' = Call("close", b, 0, "", EmptyKw, "ok", FALSE)
  /\ UNCHANGED <<books, opened_book, username, filedict, metadata, dir, yml,
                 epub, edited>>

\* Book.is_opened
is_opened(b) == page_now[b] > -1

\* turn_to_page_of without the check of the cursor
turn_to_page_unguarded(page, n) == [err |-> "ok", page |-> n]

\* Book.turn_to_page on a book whose cursor is page: error and new cursor
turn_to_page_of(page, n) ==
  IF page < 0 THEN [err |-> "NotOpen", page |-> page] ELSE [err |-> "ok", page |-> n]

\* Book.turn_to_page
Book_turn_to_page(b, n) ==
  /\ b \in BookIds
  /\ LET t == turn_to_page_of(page_now[b], n)
     IN /\ page_now' = [page_now EXCEPT ![b] = t.page]
        /\ last' = Call("turn_to_page", b, n, "", EmptyKw, t.err, FALSE)
  /\ ret' = None
  /\ found' = <<>>
  /\ UNCHANGED <<books, opened_book, username, filedict, metadata, dir, yml,
                 epub, edited>>

\* Book.next_page moving the cursor whatever its value
Book_next_page_unguarded(b) ==
  /\ b \in BookIds
  /\ page_now' = [page_now EXCEPT ![b] = page_now[b] + 1]
  /\ last' = Call("next_page", b, 0, "", EmptyKw, "ok", FALSE)
  /\ ret' = None
  /\ found' = <<>>
  /\ UNCHANGED <<books, opened_book, username, filedict, metadata, dir, yml,
                 epub, edited>>

\* Book.next_page
Book_next_page(b) ==
  /\ b \in BookIds
  /\ LET t == turn_to_page_of(page_now[b], page_now[b] + 1)
     IN /\ page_now' = [page_now EXCEPT ![b] = t.page]
        /\ last' = Call("next_page", b, 0, "", EmptyKw, t.err, FALSE)
  /\ ret' = None
  /\ found' = <<>>
  /\ UNCHANGED <<books, opened_book, username, filedict, metadata, dir, yml,
                 epub, edited>>

\* Book.prev_page
Book_prev_page(b) ==
  /\ b \in BookIds
  /\ LET t == turn_to_page_of(page_now[b], page_now[b] - 1)
     IN /\ page_now' = [page_now EXCEPT ![b] = t.page]
        /\ last' = Call("prev_page", b, 0, "", EmptyKw, t.err, FALSE)
  /\ ret' = None
  /\ found' = <<>>
  /\ UNCHANGED <<books, opened_book, username, filedict, metadata, dir, yml,
                 epub, edited>>

\* ------------------------------------------------------------------ BookManager
\* Path("~").expanduser().name, the host's default identity
HostUser == "hostuser"

\* login_error without the check of the password
login_error_username_only(u, pw) == IF u # "" THEN "LoginError" ELSE "ok"

\* BookManager.login: the error it raises, if any
login_error(u, pw) ==
  IF u # "" THEN "LoginError" ELSE IF pw # "" THEN "LoginError" ELSE "ok"

\* BookManager.login
login(u, pw) ==
  /\ username' = IF login_error(u, pw) = "ok" THEN HostUser ELSE username
  /\ last' = Call("login", NoBook, 0, u, Kw("password", pw), login_error(u, pw), FALSE)
  /\ ret' = None
  /\ found' = <<>>
  /\ UNCHANGED <<books, opened_book, page_now, filedict, metadata, dir, yml,
                 epub, edited>>

\* first_free keeping the last token drawn when all collide
first_free_or_last(d, keys) ==
  LET free == {i \in 1..Len(d) : d[i] \notin keys}
  IN IF d = <<>> THEN NoBook ELSE IF free = {} THEN d[Len(d)] ELSE d[Min(free)]

\* the first token of the draws d that is not a key, NoBook if all collide
first_free(d, keys) ==
  LET free == {i \in 1..Len(d) : d[i] \notin keys}
  IN IF free = {} THEN NoBook ELSE d[Min(free)]

\* the number of iterations of a for loop over the draws d that breaks at the
\* first token that is not a key
draws_until_free(d, keys) ==
  LET free == {i \in 1..Len(d) : d[i] \notin keys}
  IN IF free = {} THEN Len(d) ELSE Min(free)

\* get_new_bookid with the two ranges exchanged
get_new_bookid_swapped(keys, maxruns, d8, d16) ==
  LET n8 == maxruns \div 2
      n16 == maxruns - maxruns \div 2
      id8 == first_free(SubSeq(d8, 1, n8), keys)
      id16 == first_free(SubSeq(d16, 1, n16), keys)
      k8 == draws_until_free(SubSeq(d8, 1, n8), keys)
      k16 == draws_until_free(SubSeq(d16, 1, n16), keys)
  IN IF id8 # NoBook THEN [err |-> "ok", id |-> id8, drawn8 |-> k8, drawn16 |-> 0]
     ELSE IF id16 # NoBook THEN [err |-> "ok", id |-> id16, drawn8 |-> k8, drawn16 |-> k16]
     ELSE [err |-> "IdExhausted", id |-> NoBook, drawn8 |-> k8, drawn16 |-> k16]

\* BookManager.get_new_bookid(maxruns) over the registry keys, secrets handing
\* out the 8-byte tokens d8 and the 16-byte tokens d16 in this order: the id
\* returned or the error, and the number of tokens of either size it drew
get_new_bookid(keys, maxruns, d8, d16) ==
  LET n8 == maxruns - maxruns \div 2
      n16 == maxruns \div 2
      id8 == first_free(SubSeq(d8, 1, n8), keys)
      id16 == first_free(SubSeq(d16, 1, n16), keys)
      k8 == draws_until_free(SubSeq(d8, 1, n8), keys)
      k16 == draws_until_free(SubSeq(d16, 1, n16), keys)
  IN IF id8 # NoBook THEN [err |-> "ok", id |-> id8, drawn8 |-> k8, drawn16 |-> 0]
     ELSE IF id16 # NoBook THEN [err |-> "ok", id |-> id16, drawn8 |-> k8, drawn16 |-> k16]
     ELSE [err |-> "IdExhausted", id |-> NoBook, drawn8 |-> k8, drawn16 |-> k16]

\* what a call of get_new_bookid leaves to look at: the tokens secrets had
\* to hand out and the number of tokens drawn
Draws(d8, d16, new) ==
  [d8 |-> d8, d16 |-> d16, drawn8 |-> new.drawn8, drawn16 |-> new.drawn16]

\* BookManager.get_new_bookid(maxruns), called on its own
BookManager_get_new_bookid(maxruns, d8, d16) ==
  /\ LET new == get_new_bookid(BookIds, maxruns, d8, d16)
     IN last' = Call("get_new_bookid", new.id, maxruns, "", Draws(d8, d16, new),
                     new.err, FALSE)
  /\ ret' = None
  /\ found' = <<>>
  /\ UNCHANGED <<books, opened_book, username, page_now, filedict, metadata, dir, yml,
                 epub, edited>>

\* BookManager.add_book(src): the registry entry is inserted before the
\* metadata of the new book is materialized
add_book(src, d8, d16) ==
  LET new == get_new_bookid(BookIds, MaxRuns, d8, d16)
      g == get_metadata_of(new.id, None, NoFile, src, username)
  IN IF src = "missing"
     THEN /\ last' = Call("add_book", NoBook, 0, src, EmptyKw, "NotFound", FALSE)
          /\ ret' = None
          /\ found' = <<>>
          /\ UNCHANGED <<books, opened_book, username, page_now, filedict, metadata,
                         dir, yml, epub, edited>>
     ELSE IF new.err # "ok"
     THEN /\ last' = Call("add_book", NoBook, 0, src, EmptyKw, new.err, FALSE)
          /\ ret' = None
          /\ found' = <<>>
          /\ UNCHANGED <<books, opened_book, username, page_now, filedict, metadata,
                         dir, yml, epub, edited>>
     ELSE /\ dir' = [dir EXCEPT ![new.id] = src]
          /\ books' = Append(books, new.id)
          /\ metadata' = [metadata EXCEPT ![new.id] = g.metadata]
          /\ yml' = [yml EXCEPT ![new.id] = g.yml]
          /\ ret' = g.ret
          /\ found' = <<>>
          /\ last' = Call("add_book", new.id, 0, src, EmptyKw, g.err, g.wrote)
          /\ epub' = [epub EXCEPT ![new.id] = DefaultEpub]
          /\ UNCHANGED <<opened_book, username, page_now, filedict, edited>>

\* self.books[bookid].update_metadata(status=s), as del_book, recover_book
\* and the book cards call it
set_status(op, b, s) ==
  IF b \notin BookIds
  THEN /\ last' = Call(op, b, 0, "", Kw("status", s), "KeyError", FALSE)
       /\ UNCHANGED <<metadata, yml>>
  ELSE LET u == update_metadata_of(b, metadata[b], yml[b], dir[b], username,
                                   Kw("status", s))
       IN /\ metadata' = [metadata EXCEPT ![b] = u.metadata]
          /\ yml' = [yml EXCEPT ![b] = u.yml]
          /\ last' = Call(op, b, 0, "", Kw("status", s), u.err, u.err = "ok")

\* BookManager.del_book
del_book(b) ==
  /\ set_status("del_book", b, "deleted")
  /\ ret' = None
  /\ found' = <<>>
  /\ UNCHANGED <<books, opened_book, username, page_now, filedict, dir, epub, edited>>

\* BookManager.recover_book
recover_book(b) ==
  /\ set_status("recover_book", b, "normal")
  /\ ret' = None
  /\ found' = <<>>
  /\ UNCHANGED <<books, opened_book, username, page_now, filedict, dir, epub, edited>>

\* BookManager.del_book_entirely: the error it raises, if any
del_book_entirely_error(b, keys) == IF b \in keys THEN "ok" ELSE "KeyError"

\* del_book_entirely emptying the manager's slot when it holds the book
del_book_entirely_clearing(b) ==
  /\ dir' = [dir EXCEPT ![b] = "none"]
  /\ yml' = [yml EXCEPT ![b] = NoFile]
  /\ books' = SelectSeq(books, LAMBDA x : x # b)
  /\ page_now' = [page_now EXCEPT ![b] = -1]
  /\ filedict' = [filedict EXCEPT ![b] = <<>>]
  /\ metadata' = [metadata EXCEPT ![b] = None]
  /\ opened_book' = IF opened_book = b THEN NoBook ELSE opened_book
  /\ last' = Call("del_book_entirely", b, 0, "", EmptyKw,
                  del_book_entirely_error(b, BookIds), FALSE)
  /\ ret' = None
  /\ found' = <<>>
  /\ epub' = [epub EXCEPT ![b] = DefaultEpub]
  /\ UNCHANGED <<username, edited>>

\* BookManager.del_book_entirely: rmtree of the directory, then del books[b];
\* the Book object goes with its registry entry
del_book_entirely(b) ==
  /\ dir' = [dir EXCEPT ![b] = "none"]
  /\ yml' = [yml EXCEPT ![b] = NoFile]
  /\ books' = SelectSeq(books, LAMBDA x : x # b)
  /\ page_now' = [page_now EXCEPT ![b] = -1]
  /\ filedict' = [filedict EXCEPT ![b] = <<>>]
  /\ metadata' = [metadata EXCEPT ![b] = None]
  /\ last' = Call("del_book_entirely", b, 0, "", EmptyKw,
                  del_book_entirely_error(b, BookIds), FALSE)
  /\ ret' = None
  /\ found' = <<>>
  /\ epub' = [epub EXCEPT ![b] = DefaultEpub]
  /\ UNCHANGED <<opened_book, username, edited>>

\* matches keeping a book that agrees on some field
matches_any(m, kw) == \E k \in DOMAIN kw : m[k] = kw[k]

\* whether find keeps a book whose get_metadata returned the dict m
matches(m, kw) == \A k \in DOMAIN kw : m[k] = kw[k]

\* BookManager.find(**kw) from the i-th registry entry on, over the caches md
\* and the side files y: get_metadata of every book in registry order, which
\* materializes what is not yet materialized; the first error ends the call
RECURSIVE find_from(_, _, _, _, _)
find_from(i, kw, md, y, acc) ==
  IF i > Len(books) THEN [err |-> "ok", found |-> acc, metadata |-> md, yml |-> y]
  ELSE LET b == books[i]
           g == get_metadata_of(b, md[b], y[b], dir[b], username)
           md2 == [md EXCEPT ![b] = g.metadata]
           y2 == [y EXCEPT ![b] = g.yml]
       IN IF g.err # "ok"
          THEN [err |-> g.err, found |-> <<>>, metadata |-> md2, yml |-> y2]
          ELSE IF g.ret = None
          THEN IF kw = EmptyKw
               THEN find_from(i + 1, kw, md2, y2, Append(acc, b))
               ELSE [err |-> "TypeError", found |-> <<>>, metadata |-> md2, yml |-> y2]
          ELSE find_from(i + 1, kw, md2, y2,
                         IF matches(g.ret[1], kw) THEN Append(acc, b) ELSE acc)

\* BookManager.find
find(kw) ==
  /\ LET f == find_from(1, kw, metadata, yml, <<>>)
     IN /\ metadata' = f.metadata
        /\ yml' = f.yml
        /\ found' = f.found
        /\ last' = Call("find", NoBook, 0, "", kw, f.err, FALSE)
  /\ ret' = None
  /\ UNCHANGED <<books, opened_book, username, page_now, filedict, dir, epub, edited>>

\* ------------------------------------------------------------------ book cards
\* MainApp.pin_bookcard / unpin_bookcard / delete_bookcard on the card of
\* book b: update_metadata(status=s), then save_metadata()
bookcard(op, b, s) ==
  /\ b \in BookIds
  /\ LET u == update_metadata_of(b, metadata[b], yml[b], dir[b], username,
                                 Kw("status", s))
     IN /\ metadata' = [metadata EXCEPT ![b] = u.metadata]
        /\ yml' = [yml EXCEPT ![b] =
                     IF u.err = "ok"
                     THEN FileOf(yaml_safe_dump(saved_value(u.metadata)))
                     ELSE u.yml]
        /\ last' = Call(op, b, 0, "", Kw("status", s), u.err, u.err = "ok")
  /\ ret' = None
  /\ found' = <<>>
  /\ UNCHANGED <<books, opened_book, username, page_now, filedict, dir, epub, edited>>

pin_bookcard(b) == bookcard("pin_bookcard", b, "pinned")

unpin_bookcard(b) == bookcard("unpin_bookcard", b, "normal")

delete_bookcard(b) == bookcard("delete_bookcard", b, "deleted")

\* ------------------------------------------------------------------ Init
\* the orders in which iterdir can list the directories S
Orders(S) == {s \in [1..Cardinality(S) -> S] : Range(s) = S}

\* the side file an earlier session left for an EPUB it materialized as
\* "testuser" and whose status it then set to s
persisted(b, s) ==
  FileOf(yaml_safe_dump(Some(merge(materialize(read_epub_metadata(b), "testuser"),
                                   Kw("status", s)))))

\* BookManager.__init__ over a library root whose books/ holds directories of
\* the given kinds, an EPUB's side file being absent or persisted with one of
\* the given statuses, and at most `most` directories: find_books makes one
\* Book per directory
InitArchives(kinds, statuses, nofile, most, epubs) ==
  /\ dir \in [Ids -> kinds \cup {"none"}]
  /\ Cardinality({b \in Ids : dir[b] # "none"}) <= most
  /\ books \in Orders({b \in Ids : dir[b] # "none"})
  /\ yml \in [Ids -> {NoFile} \cup {persisted(b, s) : b \in Ids, s \in statuses}]
  /\ \A b \in Ids :
       /\ dir[b] # "epub" => yml[b] = NoFile
       /\ yml[b] # NoFile => yml[b] \in {persisted(b, s) : s \in statuses}
       /\ (dir[b] = "epub" /\ ~nofile) => yml[b] # NoFile
  /\ opened_book = NoBook
  /\ username = "testuser"
  /\ page_now = [b \in Ids |-> -1]
  /\ filedict = [b \in Ids |-> <<>>]
  /\ metadata = [b \in Ids |-> None]
  /\ last = Call("init", NoBook, 0, "", EmptyKw, "ok", FALSE)
  /\ ret = None
  /\ found = <<>>
  /\ epub \in [Ids -> epubs \cup {DefaultEpub}]
  /\ \A b \in Ids : dir[b] # "epub" => epub[b] = DefaultEpub
  /\ edited = [b \in Ids |-> None]

\* BookManager.__init__ of a new manager over the same library root
BookManager_init ==
  /\ books' \in Orders({b \in Ids : dir[b] # "none"})
  /\ opened_book' = NoBook
  /\ username' = "testuser"
  /\ page_now' = [b \in Ids |-> -1]
  /\ filedict' = [b \in Ids |-> <<>>]
  /\ metadata' = [b \in Ids |-> None]
  /\ last' = Call("init", NoBook, 0, "", EmptyKw, "ok", FALSE)
  /\ ret' = None
  /\ found' = <<>>
  /\ UNCHANGED <<dir, yml, epub, edited>>

\* a library all of whose EPUBs have the spine ch1, ch2 with both items in
\* the archive
InitLibrary(kinds, statuses, nofile, most) ==
  InitArchives(kinds, statuses, nofile, most, {DefaultEpub})

Init == InitLibrary({"epub", "noopf", "txt"}, StatusHint, TRUE, Cardinality(Ids))

\* ------------------------------------------------------------------ Next
NextReading ==
  \/ \E b \in Ids : Book_load(b)
  \/ \E b \in Ids : Book_release(b)
  \/ \E b \in Ids : Book_open(b)
  \/ \E b \in Ids : Book_close(b)
  \/ \E b \in Ids, n \in (-MaxPage)..MaxPage : Book_turn_to_page(b, n)
  \/ \E b \in Ids : Book_next_page(b)
  \/ \E b \in Ids : Book_prev_page(b)

NextMeta ==
  \/ \E b \in Ids : Book_get_metadata(b)
  \/ \E b \in Ids : Book_save_metadata(b)
  \/ \E b \in Ids, kw \in Partials : Book_update_metadata(b, kw)
  \/ \E b \in Ids : Book_del_metadata(b)
  \/ \E b \in Ids : del_book(b)
  \/ \E b \in Ids : recover_book(b)
  \/ \E kw \in Criteria : find(kw)
  \/ \E b \in Ids : pin_bookcard(b)
  \/ \E b \in Ids : unpin_bookcard(b)
  \/ \E b \in Ids : delete_bookcard(b)

NextAdd ==
  \E src \in SrcKinds, d8 \in [1..(MaxRuns - MaxRuns \div 2) -> Tok8],
     d16 \in [1..(MaxRuns \div 2) -> Tok16] :
    add_book(src, d8, d16)

NextRegistry ==
  \/ NextAdd
  \/ \E b \in Ids : del_book_entirely(b)
  \/ \E u \in {"", "alice"}, pw \in {"", "secret"} : login(u, pw)

Next == NextReading \/ NextMeta \/ NextRegistry

Spec == Init /\ [][Next]_vars

\* the reading session of the books of a scanned library
InitReading == InitLibrary({"epub", "noopf"}, {"normal"}, FALSE, Cardinality(Ids))

SpecReading == InitReading /\ [][NextReading]_vars

\* the metadata store of the books of a library, books being added meanwhile
InitMeta == InitLibrary({"epub"}, {"normal"}, TRUE, MaxMeta)

NextAddMeta == NextAdd /\ Len(books') <= MaxMeta

SpecMeta == InitMeta /\ [][NextMeta \/ NextAddMeta]_vars

\* the metadata of a library across managers: updates, then a new manager
NextReopen ==
  \/ \E b \in Ids : Book_get_metadata(b)
  \/ \E b \in Ids, kw \in Partials : Book_update_metadata_logged(b, kw)
  \/ NextAddMeta
  \/ BookManager_init

SpecReopen == InitMeta /\ [][NextReopen]_vars

\* the registry: adding and hard-deleting books, reading their metadata
InitRegistry == InitLibrary({"epub", "txt"}, {"normal"}, FALSE, Cardinality(Ids))

NextRegistryQueries ==
  \/ \E b \in Ids : Book_get_metadata(b)
  \/ \E kw \in Criteria : find(kw)

SpecRegistry == InitRegistry /\ [][NextRegistry \/ NextRegistryQueries]_vars

\* identifier allocation over the registries that adding and hard-deleting
\* books lead to
NextNewId ==
  \/ \E m \in 0..MaxRuns :
       \E d8 \in [1..MaxRuns -> Tok8], d16 \in [1..MaxRuns -> Tok16] :
         BookManager_get_new_bookid(m, d8, d16)
  \/ NextAdd
  \/ \E b \in Ids : del_book_entirely(b)

SpecNewId == InitRegistry /\ [][NextNewId]_vars

\* a session: reading books while books are added, soft-deleted, recovered
\* and hard-deleted, the library holding two books at a time
InitSession == InitLibrary({"epub", "noopf"}, {"normal"}, FALSE, 2)

NextAddSession == NextAdd /\ Len(books') <= 2

NextSession ==
  \/ NextReading
  \/ NextAddSession
  \/ \E b \in Ids : del_book(b)
  \/ \E b \in Ids : recover_book(b)
  \/ \E b \in Ids : del_book_entirely(b)

SpecSession == InitSession /\ [][NextSession]_vars

\* searching a library whose books were left with any status, or without a
\* side file, while books are soft-deleted and recovered
InitFind == InitLibrary({"epub"}, StatusHint, TRUE, Cardinality(Ids))

NextFind ==
  \/ \E kw \in FindCriteria : find(kw)
  \/ \E b \in Ids : del_book(b)
  \/ \E b \in Ids : recover_book(b)

SpecFind == InitFind /\ [][NextFind]_vars

\* loading and releasing the one book of a library, an EPUB of any spine
InitEpub == InitArchives({"epub"}, {"normal"}, FALSE, 1, Epubs)

NextEpub ==
  \/ \E b \in Ids : Book_load(b)
  \/ \E b \in Ids : Book_release(b)

SpecEpub == InitEpub /\ [][NextEpub]_vars

\* resolving the hrefs of the package documents of a library of one book
NextHref ==
  \E comps \in OpfDirs, k \in 0..MaxUp, r \in RelPaths : resolve_href(comps, k, r)

SpecHref == InitLibrary({"epub"}, {"normal"}, FALSE, 1) /\ [][NextHref]_vars

\* ------------------------------------------------------------------ claims
\* get_metadata() of book b in the current state, and in the next state
get_now(b) == get_metadata_of(b, metadata[b], yml[b], dir[b], username)
get_next(b) == get_metadata_of(b, metadata'[b], yml'[b], dir'[b], username')

\* C1: while the manager's slot holds a book, open() on any other book (loaded
\* or not) fails with AnotherBookOpen and leaves the slot as it was
C1_MutualExclusion ==
  [][(last'.op = "open" /\ opened_book # NoBook /\ last'.book # opened_book)
       => (last'.err = "AnotherBookOpen" /\ opened_book' = opened_book)]_vars

\* a loaded book was refused because another book holds the slot
C1_Witness ==
  /\ last.op = "open"
  /\ last.err = "AnotherBookOpen"
  /\ opened_book # NoBook
  /\ last.book # opened_book
  /\ filedict[last.book] # <<>>

\* C2: right after a successful open() the book is in the Open state (cursor
\* >= 0, is_opened) and turn_to_page(n) sets the cursor to n without NotOpen
C2_OpenEntersOpenState ==
  (last.op = "open" /\ last.err = "ok")
    => /\ page_now[last.book] >= 0
       /\ is_opened(last.book)
       /\ \A n \in 0..MaxPage :
            turn_to_page_of(page_now[last.book], n) = [err |-> "ok", page |-> n]

\* C3: an open() that directly follows a successful open() of the same book
\* fails with AlreadyOpen
C3_SecondOpenAlreadyOpen ==
  [][(last.op = "open" /\ last.err = "ok" /\ last'.op = "open"
        /\ last'.book = last.book)
       => last'.err = "AlreadyOpen"]_vars

\* C4: after update_metadata(p), get_metadata() returns what it returned
\* before with p's keys replaced by p's values
C4_UpdateThenGet ==
  [][(last'.op = "update_metadata" /\ last'.err = "ok")
       => LET b == last'.book
          IN /\ get_next(b).err = "ok"
             /\ get_next(b).ret = Some(merge(get_now(b).ret[1], last'.kw))]_vars

CardOps == {"pin_bookcard", "unpin_bookcard", "delete_bookcard"}

\* C5: update_metadata(status=s) followed by save_metadata() leaves the side
\* file holding the previous record with status s, and get_metadata() then
\* returns a record with status s
C5_StatusChangePersisted ==
  [][(last'.op \in CardOps /\ last'.err = "ok")
       => LET b == last'.book
          IN /\ yml'[b] = FileOf(yaml_safe_dump(Some(merge(get_now(b).ret[1], last'.kw))))
             /\ get_next(b).err = "ok"
             /\ get_next(b).ret # None
             /\ get_next(b).ret[1]["status"] = last'.kw["status"]]_vars

\* find(status=s) in the current state
find_status(s) == find_from(1, Kw("status", s), metadata, yml, <<>>)

\* C6: after del_book(id) the book is in find(status="deleted") and not in
\* find(status="normal"); after recover_book(id) it is the other way round;
\* the book stays in the registry
C6_SoftDeleteRecover ==
  (last.op \in {"del_book", "recover_book"} /\ last.err = "ok"
     /\ find_status("deleted").err = "ok" /\ find_status("normal").err = "ok")
    => LET b == last.book
           isdel == last.op = "del_book"
       IN /\ b \in BookIds
          /\ (b \in Range(find_status("deleted").found)) = isdel
          /\ (b \in Range(find_status("normal").found)) = ~isdel

\* C7: del_book_entirely(id) removes id from the registry and its directory,
\* and a del_book_entirely(id) directly after it does not raise and leaves
\* the registry unchanged
C7_HardDeleteTwice ==
  [][/\ (last'.op = "del_book_entirely" /\ last'.book \in BookIds)
          => (last'.book \notin Range(books') /\ dir'[last'.book] = "none")
     /\ (last.op = "del_book_entirely" /\ last.err = "ok"
           /\ last'.op = "del_book_entirely" /\ last'.book = last.book)
          => (last'.err = "ok" /\ books' = books)]_vars

\* C8: an add_book that raises leaves the registry as it was
C8_AddFailsAtomically ==
  [][(last'.op = "add_book" /\ last'.err # "ok") => books' = books]_vars

C10_GetIdempotent ==
  [][(last'.op = "get_metadata" /\ last'.err = "ok")
       => LET b == last'.book
          IN /\ get_next(b).err = "ok"
             /\ get_next(b).ret = ret'
             /\ ~get_next(b).wrote
             /\ get_next(b).yml = yml'[b]
             /\ get_next(b).metadata = metadata'[b]
             /\ (last'.wrote => yml[b] = NoFile)
             /\ (yml'[b] # yml[b] => last'.wrote)]_vars

\* get_metadata has just materialized a record and written the side file
C10_Witness ==
  /\ last.op = "get_metadata"
  /\ last.err = "ok"
  /\ last.wrote
  /\ ret # None
  /\ ret = metadata[last.book]

\* C11: a new manager's get_metadata() returns, for every key of a book that
\* was updated, the value of the most recent update of that key (the
\* materialized value if the key was never updated), a pair being taken as
\* the list it is loaded as
C11_EditsSurviveReopening ==
  \A b \in BookIds :
    (last.op = "init" /\ edited[b] # None)
      => /\ get_now(b).err = "ok"
         /\ get_now(b).ret = yaml_safe_load(yaml_safe_dump(edited[b]))

\* C12: get_new_bookid returns an id that is not a key of the registry, or
\* fails with IdExhausted
C12_NewIdIsFresh ==
  last.op = "get_new_bookid"
    => IF last.err = "ok"
       THEN last.book \in Ids /\ last.book \notin BookIds
       ELSE last.err = "IdExhausted" /\ last.book = NoBook

\* every 8-byte token drawn collided and the 16-byte token was returned
C12_Witness ==
  /\ last.op = "get_new_bookid"
  /\ last.err = "ok"
  /\ last.book \in Tok16
  /\ BookIds # {}

\* C13: at most one book is open: no book other than the one the manager's
\* slot holds is in the Open state (is_opened)
C13_AtMostOneOpen ==
  \A b \in Ids : is_opened(b) => opened_book = b

\* the slot holds a book, a second book is loaded, and a page turn or a close
\* has just acted on the second book
C13_Witness ==
  /\ opened_book \in BookIds
  /\ last.op \in {"turn_to_page", "close"}
  /\ last.book \in BookIds
  /\ last.book # opened_book
  /\ filedict[last.book] # <<>>

PageOps == {"turn_to_page", "next_page", "prev_page"}

\* C14: on a book on which open() never succeeded, turn_to_page(n),
\* next_page() and prev_page() fail with NotOpen and leave the cursor at -1,
\* whether the book is loaded or not; the slot, once set, never changes, so
\* such a book is one the slot does not hold
C14_PageTurnBeforeOpen ==
  [][(last'.op \in PageOps /\ opened_book # last'.book)
       => /\ last'.err = "NotOpen"
          /\ page_now'[last'.book] = -1
          /\ page_now[last'.book] = -1]_vars

\* a page turn was refused on a book that is loaded and was never opened
C14_Witness ==
  /\ last.op \in PageOps
  /\ last.err = "NotOpen"
  /\ opened_book # last.book
  /\ filedict[last.book] # <<>>
  /\ page_now[last.book] = -1

\* C15: a find that returns, returns the registry entries whose record (what
\* get_metadata returns) equals the criteria on every given field, each once
\* and in registry order, hence the whole registry without criteria; no find
\* changes the registry
C15_FindExact ==
  [][last'.op = "find"
       => /\ books' = books
          /\ last'.err = "ok"
               => /\ Range(found') =
                       {b \in BookIds :
                          \A k \in DOMAIN last'.kw : get_now(b).ret[1][k] = last'.kw[k]}
                  /\ Len(found') = Cardinality(Range(found'))
                  /\ \A i, j \in 1..Len(books) :
                       (i < j /\ books[i] \in Range(found') /\ books[j] \in Range(found'))
                         => \E x, y \in 1..Len(found') :
                              x < y /\ found'[x] = books[i] /\ found'[y] = books[j]
                  /\ (last'.kw = EmptyKw => found' = books)]_vars

\* a find on two fields returned some books and left out a book that agrees
\* on one of the two fields
C15_Witness ==
  /\ last.op = "find"
  /\ last.err = "ok"
  /\ Cardinality(DOMAIN last.kw) = 2
  /\ found # <<>>
  /\ \E b \in BookIds \ Range(found) :
       \E k \in DOMAIN last.kw : get_now(b).ret[1][k] = last.kw[k]

\* C16: login succeeds exactly when username and password are both empty,
\* and the identity then becomes the host's default identity; every other
\* login fails with LoginError and leaves the identity as it was
C16_Login ==
  [][last'.op = "login"
       => IF last'.src = "" /\ last'.kw["password"] = ""
          THEN last'.err = "ok" /\ username' = HostUser
          ELSE last'.err = "LoginError" /\ username' = username]_vars

\* a login with an empty username and a non-empty password was refused after
\* an earlier login had changed the identity
C16_Witness ==
  /\ last.op = "login"
  /\ last.src = ""
  /\ last.kw["password"] # ""
  /\ last.err = "LoginError"
  /\ username = HostUser

\* the place of the first itemref of the spine sp whose idref is i
first_itemref(sp, i) == Min({n \in 1..Len(sp) : sp[n] = i})

\* the content the read gives the idref i of the EPUB e
content_of(e, i) == IF i \in e.missing THEN "" ELSE i

\* C17 as stated: loading an EPUB whose spine lists N itemrefs does not raise
\* and gives N entries, the n-th keyed by the n-th idref, an item absent from
\* the archive having empty content
C17_OneEntryPerItemref ==
  [][(last'.op = "load" /\ filedict[last'.book] = <<>> /\ dir[last'.book] = "epub")
       => LET e == epub[last'.book]
              fd == filedict'[last'.book]
          IN /\ last'.err = "ok"
             /\ Len(fd) = Len(e.spine)
             /\ \A n \in 1..Len(fd) : fd[n] = <<e.spine[n], content_of(e, e.spine[n])>>]_vars

\* C17 amended: loading an EPUB does not raise and gives one entry per
\* distinct idref of the spine, in the order of the first itemref of each, an
\* item absent from the archive having empty content; these are N entries in
\* spine order when no idref occurs twice
C17_OneEntryPerIdref ==
  [][(last'.op = "load" /\ filedict[last'.book] = <<>> /\ dir[last'.book] = "epub")
       => LET e == epub[last'.book]
              fd == filedict'[last'.book]
          IN /\ last'.err = "ok"
             /\ Len(fd) = Cardinality(Range(e.spine))
             /\ {fd[x][1] : x \in 1..Len(fd)} = Range(e.spine)
             /\ \A x \in 1..Len(fd) : fd[x][2] = content_of(e, fd[x][1])
             /\ \A x, y \in 1..Len(fd) :
                  x < y => first_itemref(e.spine, fd[x][1]) < first_itemref(e.spine, fd[y][1])
             /\ (Cardinality(Range(e.spine)) = Len(e.spine)
                   => \A n \in 1..Len(fd) : fd[n][1] = e.spine[n])]_vars

\* a book was loaded whose spine lists twice an idref whose item is absent
\* from the archive
C17_Witness ==
  /\ last.op = "load"
  /\ last.err = "ok"
  /\ Len(filedict[last.book]) = 1
  /\ Len(epub[last.book].spine) = 2
  /\ filedict[last.book][1][2] = ""

\* C19 as stated: after a load() that succeeded the book is loaded (is_loaded)
\* and a further load() fails with AlreadyLoaded
C19_LoadedAfterLoad ==
  (last.op = "load" /\ last.err = "ok")
    => /\ filedict[last.book] # <<>>
       /\ load_error(filedict[last.book], dir[last.book]) = "AlreadyLoaded"

\* C18: close() leaves the book's cursor at -1 and changes nothing else: the
\* manager's slot, the registry, every content map, every record and side
\* file and every other cursor are as before
C18_CloseFrame ==
  [][last'.op = "close"
       => /\ page_now'[last'.book] = -1
          /\ \A b \in Ids \ {last'.book} : page_now'[b] = page_now[b]
          /\ opened_book' = opened_book
          /\ filedict' = filedict
          /\ metadata' = metadata
          /\ yml' = yml
          /\ dir' = dir
          /\ books' = books
          /\ username' = username]_vars

\* the book that holds the slot, still loaded, was closed
C18_Witness ==
  /\ last.op = "close"
  /\ last.book = opened_book
  /\ filedict[last.book] # <<>>
  /\ page_now[last.book] = -1

\* C20: once an open() has succeeded the slot keeps its value through every
\* operation (close, release, load, soft delete, recover, hard delete, add),
\* so no later open() succeeds, and open() on a book other than the one the
\* slot names fails with AnotherBookOpen
C20_SlotNeverCleared ==
  [][opened_book # NoBook
       => /\ opened_book' = opened_book
          /\ last'.op = "open"
               => /\ last'.err # "ok"
                  /\ last'.book # opened_book => last'.err = "AnotherBookOpen"]_vars

\* a loaded book was refused after the book the slot names was closed and
\* hard-deleted
C20_Witness ==
  /\ last.op = "open"
  /\ last.err = "AnotherBookOpen"
  /\ filedict[last.book] # <<>>
  /\ opened_book # NoBook
  /\ opened_book \notin BookIds

\* C21: the manager's slot is empty or names a book of the registry
C21_SlotInRegistry ==
  opened_book = NoBook \/ opened_book \in BookIds

\* the tokens a call drew, in the order it drew them
drawn_tokens(kw) == SubSeq(kw.d8, 1, kw.drawn8) \o SubSeq(kw.d16, 1, kw.drawn16)

\* C22: get_new_bookid(maxruns) draws at most maxruns - maxruns/2 8-byte
\* tokens and, only if every one of them is a key, at most maxruns/2 16-byte
\* tokens; it returns the first token drawn that is not a key and fails with
\* IdExhausted exactly when it made all maxruns draws and every one is a key
C22_DrawCounts ==
  last.op = "get_new_bookid"
    => LET m == last.n
           kw == last.kw
           t == drawn_tokens(kw)
           collide == \A i \in 1..Len(t) : t[i] \in BookIds
       IN /\ kw.drawn8 <= m - m \div 2
          /\ kw.drawn16 <= m \div 2
          /\ Len(t) <= m
          /\ kw.drawn16 > 0
               => /\ kw.drawn8 = m - m \div 2
                  /\ \A i \in 1..kw.drawn8 : kw.d8[i] \in BookIds
          /\ last.err \in {"ok", "IdExhausted"}
          /\ last.err = "ok"
               => /\ t # <<>>
                  /\ last.book = t[Len(t)]
                  /\ last.book \notin BookIds
                  /\ \A i \in 1..(Len(t) - 1) : t[i] \in BookIds
          /\ (last.err = "IdExhausted") = (Len(t) = m /\ collide)
          /\ (m = 0 => last.err = "IdExhausted")
          /\ (m = 1 => kw.drawn16 = 0)

\* every one of the MaxRuns draws, of either size, was a key
C22_Witness ==
  /\ last.op = "get_new_bookid"
  /\ last.n = MaxRuns
  /\ last.err = "IdExhausted"
  /\ last.kw.drawn8 = MaxRuns - MaxRuns \div 2
  /\ last.kw.drawn16 = MaxRuns \div 2

\* C23: open() of an unloaded book fails with NotLoaded when the slot is
\* empty, and with AnotherBookOpen or AlreadyOpen when the slot is occupied;
\* an open() that fails leaves the slot as it was, and no open() moves the
\* cursor of an unloaded book from -1
C23_OpenPrecedence ==
  [][last'.op = "open"
       => LET b == last'.book
          IN /\ (filedict[b] = <<>> /\ opened_book = NoBook)
                  => /\ last'.err = "NotLoaded"
                     /\ opened_book' = NoBook
                     /\ page_now'[b] = -1
             /\ (filedict[b] = <<>> /\ opened_book # NoBook)
                  => last'.err \in {"AnotherBookOpen", "AlreadyOpen"}
             /\ last'.err # "ok" => opened_book' = opened_book]_vars

\* an unloaded book was refused because the slot holds another book
C23_Witness ==
  /\ last.op = "open"
  /\ last.err = "AnotherBookOpen"
  /\ filedict[last.book] = <<>>
  /\ opened_book \in BookIds \ {last.book}

\* C24: release() never fails, empties the content map of the book, so that
\* the book is not loaded, a load() is not refused as AlreadyLoaded and an
\* open() with the slot empty fails with NotLoaded, and leaves every cursor,
\* the slot and every other content map as they were
C24_ReleaseFrame ==
  [][last'.op = "release"
       => LET b == last'.book
          IN /\ last'.err = "ok"
             /\ filedict'[b] = <<>>
             /\ load_error(filedict'[b], dir'[b]) # "AlreadyLoaded"
             /\ open_error(NoBook, page_now'[b], filedict'[b]) = "NotLoaded"
             /\ \A c \in Ids \ {b} : filedict'[c] = filedict[c]
             /\ page_now' = page_now
             /\ opened_book' = opened_book
             /\ books' = books
             /\ metadata' = metadata
             /\ yml' = yml
             /\ dir' = dir]_vars

\* the book that holds the slot was released
C24_Witness ==
  /\ last.op = "release"
  /\ last.book = opened_book
  /\ filedict[last.book] = <<>>
  /\ \E c \in BookIds \ {last.book} : filedict[c] # <<>>

\* C25: for a package document in a directory of any depth and an href of k
\* "../" segments followed by r, k at most the depth, the resolved name is
\* the directory k levels up, one separator and r, and r alone when that
\* directory is the archive root
C25_HrefResolution ==
  (last.op = "merge_dir" /\ last.n <= Len(last.kw["dir"]))
    => LET comps == last.kw["dir"]
           up == SubSeq(comps, 1, Len(comps) - last.n)
       IN ret = Some(IF up = <<>> THEN last.kw["path"]
                     ELSE join(up) \o <<"/">> \o last.kw["path"])

====
